---- MODULE Spec2Model ----
(***************************************************************************)
(* Model of src/request_parser.rs: the RequestParser trait and the         *)
(* request_parser_joiner! / __impl_request_parser_joiner! macros, which    *)
(* build a struct whose parse_operation_id tests a request against a fixed *)
(* list of RequestParser types in turn.                                    *)
(*                                                                         *)
(* The macro expansion is a nest of `match` expressions.  It is modelled   *)
(* as a small-step machine: every thread that calls the joined parser has  *)
(* a stack of pending macro expansions (the remaining `$head, $tail` type  *)
(* list of each), the value just returned by a constituent, and a trace of *)
(* the constituent calls and returns of the current invocation.            *)
(***************************************************************************)
EXTENDS Naturals, Sequences, FiniteSets

VARIABLES decl, thr

vars == <<decl, thr>>

\* ------------------------------------------------------------------ bounds
\* Largest number of leaf RequestParser types joined (directly or through
\* one nested joiner) in the sequential specification.
MaxLen == 3

\* Number of threads calling the joined parser in the concurrent specification.
NumThreads == 2

\* ------------------------------------------------------ Result<&'static str, ()>
Ok(s) == <<"Ok", s>>

Err == <<"Err">>

\* No value: a constituent has not returned yet / the invocation has no result yet.
None == <<>>

IsOk(r) == Len(r) = 2 /\ r[1] = "Ok"

\* ---------------------------------------------------------------- requests
\* request.uri().path() of the requests handed to the parsers.
Paths == {"/test/t11", "/test/t12", "/test/t21", "/test/t22", "/test/t33"}

\* ------------------------------------------------- RequestParser implementations
TestParser1(path) ==
    CASE path = "/test/t11" -> Ok("t11")
      [] path = "/test/t12" -> Ok("t12")
      [] OTHER -> Err

TestParser2(path) ==
    CASE path = "/test/t21" -> Ok("t21")
      [] path = "/test/t22" -> Ok("t22")
      [] OTHER -> Err

\* A further implementation of the trait, of the same shape as the two above,
\* whose matched paths overlap with both of them under other identifiers.
OverlapParser(path) ==
    CASE path = "/test/t11" -> Ok("o11")
      [] path = "/test/t22" -> Ok("o22")
      [] OTHER -> Err

\* The types that implement RequestParser directly.
Leaves == {"TestParser1", "TestParser2", "OverlapParser"}

\* The structs declared by request_parser_joiner!.
Structs == {"Joined", "Inner"}

\* <T as RequestParser>::parse_operation_id(&request) for a leaf type T.
parse_operation_id(T, path) ==
    CASE T = "TestParser1" -> TestParser1(path)
      [] T = "TestParser2" -> TestParser2(path)
      [] T = "OverlapParser" -> OverlapParser(path)

\* ------------------------------------------------------ request_parser_joiner!
\* request_parser_joiner!(Joined, ...) over the leaf list Ms, where the segment
\* Ms[lo..hi] is first joined by request_parser_joiner!(Inner, Ms[lo], .., Ms[hi])
\* when lo > 0; lo = 0 joins the leaves directly and declares no Inner.
request_parser_joiner(Ms, lo, hi) ==
    IF lo = 0
      THEN [Joined |-> Ms, Inner |-> <<>>]
      ELSE [Joined |-> SubSeq(Ms, 1, lo - 1) \o <<"Inner">> \o SubSeq(Ms, hi + 1, Len(Ms)),
            Inner  |-> SubSeq(Ms, lo, hi)]

\* The leaf lists of at most n types.
LeafSeqs(n) == UNION {[1..k -> Leaves] : k \in 1..n}

\* The ways of nesting a joiner inside the joiner over Ms: none, or a segment.
Nestings(Ms) ==
    {<<0, 0>>} \cup {p \in (1..Len(Ms)) \X (1..Len(Ms)) : p[1] <= p[2]}

\* The macro invocations of the programs over the leaf lists in S.
Programs(S) ==
    UNION {{request_parser_joiner(Ms, p[1], p[2]) : p \in Nestings(Ms)} : Ms \in S}

\* ------------------------------------------------ __impl_request_parser_joiner!
\* The value of the expansion of __impl_request_parser_joiner!(request, Ts) when
\* it is evaluated in one piece: rule ($argname, $head) for a single type,
\* rule ($argname, $head, $tail...) otherwise.
RECURSIVE impl_request_parser_joiner(_, _)
impl_request_parser_joiner(path, Ts) ==
    LET head == Head(Ts)
        r == IF head \in Leaves
               THEN parse_operation_id(head, path)
               ELSE impl_request_parser_joiner(path, decl[head])
    IN  IF Len(Ts) = 1
          THEN r
          ELSE IF IsOk(r) THEN Ok(r[2]) ELSE impl_request_parser_joiner(path, Tail(Ts))

\* ------------------------------------------------------------------ threads
Idle == [pc |-> "idle", req |-> "", stack |-> <<>>, ret |-> None, trace |-> <<>>, result |-> None]

\* The macro expansion a thread is evaluating: the innermost pending
\* __impl_request_parser_joiner!(request, $head, $tail...) and its type list.
Top(t) == thr[t].stack[Len(thr[t].stack)]

Depth(t) == Len(thr[t].stack)

CallEv(T, d) == [ev |-> "call", ty |-> T, depth |-> d, res |-> None]

RetEv(T, d, r) == [ev |-> "ret", ty |-> T, depth |-> d, res |-> r]

\* The frame on top of the stack has produced the value r: its caller receives
\* it.  The caller is the constituent call of the frame below (whose head is
\* the joined struct just evaluated), or the caller of the joined parser.
Produce(t, r) ==
    LET d == Depth(t)
        below == SubSeq(thr[t].stack, 1, d - 1)
    IN  IF d = 1
          THEN thr' = [thr EXCEPT ![t].stack = <<>>, ![t].ret = None,
                                  ![t].result = r, ![t].pc = "done"]
          ELSE thr' = [thr EXCEPT ![t].stack = below, ![t].ret = r,
                                  ![t].trace = Append(@, RetEv(Head(below[d - 1]), d - 1, r))]

\* Mutation of Call: the type list is expanded back to front.
RECURSIVE Reverse(_)
Reverse(q) == IF q = <<>> THEN <<>> ELSE Append(Reverse(Tail(q)), Head(q))

CallReversed(t, path) ==
    /\ thr[t].pc = "idle"
    /\ thr' = [thr EXCEPT ![t] = [Idle EXCEPT !.pc = "run", !.req = path,
                                              !.stack = <<Reverse(decl.Joined)>>]]
    /\ UNCHANGED decl

\* A caller invokes Joined::parse_operation_id(&request): the body is the
\* expansion of __impl_request_parser_joiner!(request, T1, .., Tn).
Call(t, path) ==
    /\ thr[t].pc = "idle"
    /\ thr' = [thr EXCEPT ![t] = [Idle EXCEPT !.pc = "run", !.req = path,
                                              !.stack = <<decl.Joined>>]]
    /\ UNCHANGED decl

\* Mutation of Enter: the nested expansion replaces the pending one, so the
\* $tail of the caller is lost.
EnterTailCall(t) ==
    /\ thr[t].pc = "run"
    /\ thr[t].ret = None
    /\ Head(Top(t)) \in Structs
    /\ thr' = [thr EXCEPT ![t].stack[Depth(t)] = decl[Head(Top(t))],
                          ![t].trace = Append(@, CallEv(Head(Top(t)), Depth(t)))]
    /\ UNCHANGED decl

\* <$head as RequestParser>::parse_operation_id(&request) where $head is itself
\* a struct declared by request_parser_joiner!: its expansion is entered.
Enter(t) ==
    /\ thr[t].pc = "run"
    /\ thr[t].ret = None
    /\ Head(Top(t)) \in Structs
    /\ thr' = [thr EXCEPT ![t].stack = Append(@, decl[Head(Top(t))]),
                          ![t].trace = Append(@, CallEv(Head(Top(t)), Depth(t)))]
    /\ UNCHANGED decl

\* Mutation of Invoke: the request lives in a slot shared by all callers, so a
\* leaf reads the request of another caller that is evaluating at the moment.
InvokeShared(t) ==
    /\ thr[t].pc = "run"
    /\ thr[t].ret = None
    /\ Head(Top(t)) \in Leaves
    /\ LET T == Head(Top(t))
           others == {u \in DOMAIN thr \ {t} : thr[u].pc = "run"}
           path == IF others = {} THEN thr[t].req ELSE thr[CHOOSE u \in others : TRUE].req
           r == parse_operation_id(T, path)
       IN  thr' = [thr EXCEPT ![t].ret = r,
                              ![t].trace = @ \o <<CallEv(T, Depth(t)), RetEv(T, Depth(t), r)>>]
    /\ UNCHANGED decl

\* Mutation of Invoke: the macro evaluates the $head expression twice (once to
\* test it, once to take its value).
InvokeTwice(t) ==
    /\ thr[t].pc = "run"
    /\ thr[t].ret = None
    /\ Head(Top(t)) \in Leaves
    /\ LET T == Head(Top(t))
           r == parse_operation_id(T, thr[t].req)
       IN  thr' = [thr EXCEPT ![t].ret = r,
                              ![t].trace = @ \o <<CallEv(T, Depth(t)), RetEv(T, Depth(t), r),
                                                  CallEv(T, Depth(t)), RetEv(T, Depth(t), r)>>]
    /\ UNCHANGED decl

\* <$head as RequestParser>::parse_operation_id(&request) where $head is a leaf.
Invoke(t) ==
    /\ thr[t].pc = "run"
    /\ thr[t].ret = None
    /\ Head(Top(t)) \in Leaves
    /\ LET T == Head(Top(t))
           r == parse_operation_id(T, thr[t].req)
       IN  thr' = [thr EXCEPT ![t].ret = r,
                              ![t].trace = @ \o <<CallEv(T, Depth(t)), RetEv(T, Depth(t), r)>>]
    /\ UNCHANGED decl

\* Mutation of SingleRule: the value of the last constituent is dropped and
\* no-match is reported.
SingleRuleErr(t) ==
    /\ thr[t].pc = "run"
    /\ thr[t].ret # None
    /\ Len(Top(t)) = 1
    /\ Produce(t, Err)
    /\ UNCHANGED decl

\* Rule ($argname, $head): the value of the only constituent is the value of
\* the expansion.
SingleRule(t) ==
    /\ thr[t].pc = "run"
    /\ thr[t].ret # None
    /\ Len(Top(t)) = 1
    /\ Produce(t, thr[t].ret)
    /\ UNCHANGED decl

\* Mutation of MatchOk: a success does not end the evaluation, the $tail is
\* still evaluated.
MatchOkContinue(t) ==
    /\ thr[t].pc = "run"
    /\ thr[t].ret # None
    /\ Len(Top(t)) > 1
    /\ IsOk(thr[t].ret)
    /\ thr' = [thr EXCEPT ![t].stack[Depth(t)] = Tail(@), ![t].ret = None]
    /\ UNCHANGED decl

\* Rule ($argname, $head, $tail...), arm Ok(s) => Ok(s).
MatchOk(t) ==
    /\ thr[t].pc = "run"
    /\ thr[t].ret # None
    /\ Len(Top(t)) > 1
    /\ IsOk(thr[t].ret)
    /\ Produce(t, Ok(thr[t].ret[2]))
    /\ UNCHANGED decl

\* Mutation of MatchErr: Err(_) => Err(()), the $tail is never tried.
MatchErrFail(t) ==
    /\ thr[t].pc = "run"
    /\ thr[t].ret # None
    /\ Len(Top(t)) > 1
    /\ ~IsOk(thr[t].ret)
    /\ Produce(t, Err)
    /\ UNCHANGED decl

\* Mutation of MatchErr: the expansion recurses on the whole list instead of
\* the $tail, so the same $head is tried again.
MatchErrStay(t) ==
    /\ thr[t].pc = "run"
    /\ thr[t].ret # None
    /\ Len(Top(t)) > 1
    /\ ~IsOk(thr[t].ret)
    /\ thr' = [thr EXCEPT ![t].ret = None]
    /\ UNCHANGED decl

\* Rule ($argname, $head, $tail...), arm Err(_) => the expansion over $tail.
MatchErr(t) ==
    /\ thr[t].pc = "run"
    /\ thr[t].ret # None
    /\ Len(Top(t)) > 1
    /\ ~IsOk(thr[t].ret)
    /\ thr' = [thr EXCEPT ![t].stack[Depth(t)] = Tail(@), ![t].ret = None]
    /\ UNCHANGED decl

\* Mutation of Return: the joined parser remembers the constituent that was
\* tried last and moves it to the front for the next request.
ReturnMoveToFront(t) ==
    /\ thr[t].pc = "done"
    /\ thr' = [thr EXCEPT ![t] = Idle]
    /\ LET J == decl.Joined
           i == Cardinality({k \in DOMAIN thr[t].trace :
                               thr[t].trace[k].ev = "call" /\ thr[t].trace[k].depth = 1})
       IN  decl' = [decl EXCEPT !.Joined = <<J[i]>> \o SubSeq(J, 1, i - 1) \o SubSeq(J, i + 1, Len(J))]

\* The caller has taken the result; the thread is free for its next request.
Return(t) ==
    /\ thr[t].pc = "done"
    /\ thr' = [thr EXCEPT ![t] = Idle]
    /\ UNCHANGED decl

\* ----------------------------------------------------------- specifications
\* One caller; every program of at most MaxLen leaves.
Init ==
    /\ decl \in Programs(LeafSeqs(MaxLen))
    /\ thr = [t \in {1} |-> Idle]

\* NumThreads callers of one joined parser over two leaves, as test_macros
\* joins two, directly or through a nested joiner.
InitConc ==
    /\ decl \in Programs({<<a, b>> : a \in Leaves, b \in Leaves})
    /\ thr = [t \in 1..NumThreads |-> Idle]

\* The evaluation steps of one invocation.  The expansion is straight-line
\* synchronous code without suspension points: a started invocation keeps running.
Eval(t) == Enter(t) \/ Invoke(t) \/ SingleRule(t) \/ MatchOk(t) \/ MatchErr(t)

Next ==
    \/ \E t \in DOMAIN thr : \E path \in Paths : Call(t, path)
    \/ \E t \in DOMAIN thr : Enter(t)
    \/ \E t \in DOMAIN thr : Invoke(t)
    \/ \E t \in DOMAIN thr : SingleRule(t)
    \/ \E t \in DOMAIN thr : MatchOk(t)
    \/ \E t \in DOMAIN thr : MatchErr(t)
    \/ \E t \in DOMAIN thr : Return(t)

Spec == Init /\ [][Next]_vars

SpecConc == InitConc /\ [][Next]_vars

SpecLive == Init /\ [][Next]_vars /\ WF_vars(Eval(1))

\* ------------------------------------------------------- vocabulary of the claims
\* The constituents M1..Mn of the joined parser, in declared order.
Constituents == decl.Joined

Done(t) == thr[t].pc = "done"

\* The first success of a list of results, or no-match when none succeeds.
FirstSuccess(rs) ==
    IF \E i \in DOMAIN rs : IsOk(rs[i])
      THEN rs[CHOOSE i \in DOMAIN rs : IsOk(rs[i]) /\ \A j \in 1..(i - 1) : ~IsOk(rs[j])]
      ELSE Err

\* M(R) for a constituent invoked by hand: a leaf's own answer; for a nested
\* joined parser, the first success of its own constituents invoked by hand.
RECURSIVE Manual(_, _)
Manual(T, path) ==
    IF T \in Leaves
      THEN parse_operation_id(T, path)
      ELSE FirstSuccess([i \in DOMAIN decl[T] |-> Manual(decl[T][i], path)])

\* The leaf types of a type list, nested joiners replaced by their lists.
RECURSIVE Flatten(_)
Flatten(Ts) ==
    IF Ts = <<>>
      THEN <<>>
      ELSE (IF Head(Ts) \in Leaves THEN <<Head(Ts)>> ELSE Flatten(decl[Head(Ts)]))
           \o Flatten(Tail(Ts))

IsTop(e) == e.depth = 1

IsTopCall(e) == e.depth = 1 /\ e.ev = "call"

IsTopRet(e) == e.depth = 1 /\ e.ev = "ret"

IsLeafCall(e) == e.ev = "call" /\ e.ty \in Leaves

\* The calls and returns of the constituents M1..Mn in the current invocation.
TopEvents(t) == SelectSeq(thr[t].trace, IsTop)

TopCalls(t) == SelectSeq(thr[t].trace, IsTopCall)

TopRets(t) == SelectSeq(thr[t].trace, IsTopRet)

\* The leaf types invoked in the current invocation, in the order of the calls.
LeafCalls(t) ==
    LET cs == SelectSeq(thr[t].trace, IsLeafCall)
    IN  [k \in DOMAIN cs |-> cs[k].ty]

Ids == {"t11", "t12", "t21", "t22", "o11", "o22"}

\* ------------------------------------------------------------------------ C1
\* C1 (order determinism): a finished invocation of the joined parser on R
\* returns what trying M1(R), then M2(R), .. in declared order returns: the
\* first success, or no-match after Mn fails.
C1_OrderDeterminism ==
    \A t \in DOMAIN thr :
        Done(t) =>
            thr[t].result =
                FirstSuccess([i \in DOMAIN Constituents |-> Manual(Constituents[i], thr[t].req)])

\* M1 and M2 fail on R and a later constituent succeeds.
C1_Witness ==
    \E t \in DOMAIN thr :
        /\ Done(t)
        /\ Len(Constituents) >= 3
        /\ Manual(Constituents[1], thr[t].req) = Err
        /\ Manual(Constituents[2], thr[t].req) = Err
        /\ IsOk(thr[t].result)

\* ------------------------------------------------------------------------ C2
\* C2 (short-circuit): once a constituent has returned success in an
\* invocation, nothing is invoked any more in that invocation; when Mi is the
\* constituent that succeeded, the last constituent called is Mi, so no Mj with
\* j > i has been called.
C2_ShortCircuit ==
    \A t \in DOMAIN thr :
        \A k \in DOMAIN thr[t].trace :
            LET e == thr[t].trace[k]
            IN  (e.ev = "ret" /\ IsOk(e.res)) =>
                    /\ \A l \in DOMAIN thr[t].trace : l > k => thr[t].trace[l].ev # "call"
                    /\ IsTopRet(e) =>
                           /\ TopCalls(t)[Len(TopCalls(t))].ty = e.ty
                           /\ Constituents[Len(TopCalls(t))] = e.ty

\* A constituent succeeded while later constituents were still to be tried.
C2_Witness ==
    \E t \in DOMAIN thr :
        /\ Done(t)
        /\ IsOk(thr[t].result)
        /\ Len(TopCalls(t)) < Len(Constituents)

\* ------------------------------------------------------------------------ C3
\* C3 (precedence over ambiguity): when Mi(R) succeeds, the joined parser
\* returns the success of Mi or of an earlier constituent, never that of a
\* later one; so [M1, M2] with both matching returns M1's identifier.
C3_Precedence ==
    \A t \in DOMAIN thr :
        Done(t) =>
            \A i \in DOMAIN Constituents :
                IsOk(Manual(Constituents[i], thr[t].req)) =>
                    /\ IsOk(thr[t].result)
                    /\ \E k \in 1..i : /\ thr[t].result = Manual(Constituents[k], thr[t].req)
                                       /\ \A j \in 1..(k - 1) :
                                              ~IsOk(Manual(Constituents[j], thr[t].req))

\* M1(R) and M2(R) succeed with different identifiers.
C3_Witness ==
    \E t \in DOMAIN thr :
        /\ Done(t)
        /\ Len(Constituents) >= 2
        /\ IsOk(Manual(Constituents[1], thr[t].req))
        /\ IsOk(Manual(Constituents[2], thr[t].req))
        /\ Manual(Constituents[1], thr[t].req) # Manual(Constituents[2], thr[t].req)
        /\ thr[t].result = Manual(Constituents[1], thr[t].req)

\* ------------------------------------------------------------------------ C4
\* C4 (total no-match): the joined parser returns Err(()) exactly when every
\* constituent was invoked and returned no-match, which is exactly when every
\* Mi(R) is no-match; any other result is Ok of an identifier.
C4_TotalNoMatch ==
    \A t \in DOMAIN thr :
        Done(t) =>
            /\ thr[t].result \in {Err} \cup {Ok(s) : s \in Ids}
            /\ (thr[t].result = Err) <=>
                   (\A i \in DOMAIN Constituents : Manual(Constituents[i], thr[t].req) = Err)
            /\ (thr[t].result = Err) <=>
                   (/\ Len(TopRets(t)) = Len(Constituents)
                    /\ \A k \in DOMAIN TopRets(t) : TopRets(t)[k].res = Err)

\* Two or more constituents, all of which fail on R.
C4_Witness ==
    \E t \in DOMAIN thr :
        /\ Done(t)
        /\ Len(Constituents) >= 2
        /\ thr[t].result = Err

\* ------------------------------------------------------------------------ C5
\* The requests a constituent matches when invoked by hand.
Matched(T) == {p \in Paths : IsOk(Manual(T, p))}

PairwiseDisjoint ==
    \A i, j \in DOMAIN Constituents :
        i # j => Matched(Constituents[i]) \cap Matched(Constituents[j]) = {}

\* The answers test_macros expects of TestParser1 joined with TestParser2.
Expected(path) ==
    CASE path = "/test/t11" -> Ok("t11")
      [] path = "/test/t12" -> Ok("t12")
      [] path = "/test/t21" -> Ok("t21")
      [] path = "/test/t22" -> Ok("t22")
      [] path = "/test/t33" -> Err

\* C5 (disjoint constituents): when the constituents match pairwise disjoint
\* sets of requests, the joined parser returns the answer of the only
\* constituent that matches R, and no-match when none does; TestParser1 and
\* TestParser2 joined in either order give t11, t12, t21, t22 for their paths
\* and no-match for /test/t33.
C5_Disjoint ==
    \A t \in DOMAIN thr :
        Done(t) =>
            /\ PairwiseDisjoint =>
                   LET S == {i \in DOMAIN Constituents : thr[t].req \in Matched(Constituents[i])}
                   IN  /\ Cardinality(S) <= 1
                       /\ S = {} => thr[t].result = Err
                       /\ \A i \in S : thr[t].result = Manual(Constituents[i], thr[t].req)
            /\ Constituents \in {<<"TestParser1", "TestParser2">>, <<"TestParser2", "TestParser1">>}
                   => thr[t].result = Expected(thr[t].req)

\* TestParser2 joined before TestParser1, on a request only TestParser1 matches.
C5_Witness ==
    \E t \in DOMAIN thr :
        /\ Done(t)
        /\ PairwiseDisjoint
        /\ Constituents = <<"TestParser2", "TestParser1">>
        /\ thr[t].req = "/test/t11"
        /\ thr[t].result = Ok("t11")

\* ------------------------------------------------------------------------ C6
\* C6 (statelessness under concurrency): with several invocations of the same
\* joined parser interleaved, every leaf answers for the request of its own
\* invocation, and every finished invocation holds the result the expansion
\* gives for its request when evaluated in one piece, alone.
C6_Stateless ==
    \A t \in DOMAIN thr :
        /\ \A k \in DOMAIN thr[t].trace :
               LET e == thr[t].trace[k]
               IN  (e.ev = "ret" /\ e.ty \in Leaves) => e.res = parse_operation_id(e.ty, thr[t].req)
        /\ Done(t) => thr[t].result = impl_request_parser_joiner(thr[t].req, decl.Joined)

\* One invocation has finished with a match while another, on a different
\* request, is in the middle of its constituents.
C6_Witness ==
    \E t, u \in DOMAIN thr :
        /\ t # u
        /\ Done(t)
        /\ IsOk(thr[t].result)
        /\ thr[u].pc = "run"
        /\ thr[u].ret # None
        /\ thr[u].req # thr[t].req
        /\ Len(thr[t].trace) > 2

\* ------------------------------------------------------------------------ C7
\* C7 (determinism, history independence): two finished invocations of the
\* joined parser on the same request hold the same outcome and have made the
\* same constituent calls, whatever invocations were made before either.
C7_Deterministic ==
    \A t, u \in DOMAIN thr :
        (Done(t) /\ Done(u) /\ thr[t].req = thr[u].req) =>
            /\ thr[t].result = thr[u].result
            /\ thr[t].trace = thr[u].trace

\* Two invocations on the same request have both finished, with a match that
\* more than one constituent could give.
C7_Witness ==
    \E t, u \in DOMAIN thr :
        /\ t # u
        /\ Done(t)
        /\ Done(u)
        /\ thr[t].req = thr[u].req
        /\ IsOk(thr[t].result)
        /\ \A i \in DOMAIN Constituents : IsOk(Manual(Constituents[i], thr[t].req))
        /\ Manual(Constituents[1], thr[t].req) # Manual(Constituents[Len(Constituents)], thr[t].req)

C9_Order ==
    \A t \in DOMAIN thr :
        LET ev == TopEvents(t)
        IN  /\ Len(ev) <= 2 * Len(Constituents)
            /\ \A m \in DOMAIN ev :
                   IF m % 2 = 1
                     THEN ev[m].ev = "call" /\ ev[m].ty = Constituents[(m + 1) \div 2]
                     ELSE /\ ev[m].ev = "ret"
                          /\ ev[m].ty = Constituents[m \div 2]
                          /\ m < Len(ev) => ev[m].res = Err

\* C9 (invocation order and bound): in every invocation the constituents are
\* invoked in declared order, Mi only after M1..Mi-1 were each invoked once and
\* returned no-match, at most n calls are made, and a started invocation
\* always returns a result.
C9_OrderAndBound ==
    /\ []C9_Order
    /\ (thr[1].pc = "run") ~> (thr[1].pc = "done")

\* All of three or more constituents were invoked, and the invocation finished.
C9_Witness ==
    \E t \in DOMAIN thr :
        /\ Done(t)
        /\ Len(Constituents) >= 3
        /\ Len(TopCalls(t)) = Len(Constituents)

\* ----------------------------------------------------------------------- C10
\* C10 (associativity under nesting): the result of the joined parser and the
\* leaf matchers it invokes, in order, are those of the flat list of its
\* leaves, whether a segment of that list is joined first or not; so
\* [A, B, C], [join(A, B), C] and [A, join(B, C)] agree.
C10_Associative ==
    \A t \in DOMAIN thr :
        Done(t) =>
            LET L == Flatten(Constituents)
                rs == [i \in DOMAIN L |-> parse_operation_id(L[i], thr[t].req)]
                hit == {i \in DOMAIN L : IsOk(rs[i])}
                n == IF hit = {} THEN Len(L) ELSE CHOOSE i \in hit : \A j \in hit : i <= j
            IN  /\ thr[t].result = FirstSuccess(rs)
                /\ LeafCalls(t) = SubSeq(L, 1, n)

\* A joiner of two leaves is nested in the joined parser next to a third
\* leaf, and all three leaves were invoked.
C10_Witness ==
    \E t \in DOMAIN thr :
        /\ Done(t)
        /\ Len(decl.Inner) = 2
        /\ Len(Constituents) = 2
        /\ Len(LeafCalls(t)) = 3
        /\ IsOk(thr[t].result)

====
